---- MODULE Spec2Model ----
(***************************************************************************)
(* A model of the Coursera recommendation bot (src/bot.py): the engine     *)
(* RECO built once at import, the per-chat preference store USERS, and the *)
(* handlers start, help_cmd, setprefs, button, top, on_message and         *)
(* error_handler, each cut into steps at its await points.                 *)
(*                                                                         *)
(* Text is modelled as a sequence of one-character strings, so that        *)
(* str.lower, str.strip, str.startswith, str.split and the "in" substring  *)
(* test are computed, not assumed.  rating is kept in tenths (45 is 4.5)   *)
(* and students_enrolled as a whole number.                                *)
(*                                                                         *)
(* The module recommender (CourseRecommender, Course) is imported by       *)
(* bot.py but its source is not among the files modelled; the operators    *)
(* Normalize, build_engine, recommend and trending follow the written      *)
(* specification of the engine (spec.md, sections 3, 4 and 6).             *)
(***************************************************************************)
EXTENDS Integers, Sequences, FiniteSets, TLC

(***************************************************************************)
(* Text                                                                    *)
(***************************************************************************)

\* Python's None.  No text equals it: a text is a sequence of one-character
\* strings.
None == <<"<None>">>

UpperCase == <<"A", "B", "C", "D", "E", "F", "G", "H", "I", "J", "K", "L", "M",
               "N", "O", "P", "Q", "R", "S", "T", "U", "V", "W", "X", "Y", "Z">>

LowerCase == <<"a", "b", "c", "d", "e", "f", "g", "h", "i", "j", "k", "l", "m",
               "n", "o", "p", "q", "r", "s", "t", "u", "v", "w", "x", "y", "z">>

\* One character of str.lower().
LowerChar(ch) ==
    IF \E i \in 1..Len(UpperCase) : UpperCase[i] = ch
    THEN LowerCase[CHOOSE i \in 1..Len(UpperCase) : UpperCase[i] = ch]
    ELSE ch

\* str.lower()
Lower(s) == [i \in 1..Len(s) |-> LowerChar(s[i])]

\* needle in hay (Python's substring test; the empty text is in every text)
Contains(needle, hay) ==
    \E i \in 0..(Len(hay) - Len(needle)) :
        SubSeq(hay, i + 1, i + Len(needle)) = needle

\* str.startswith
StartsWith(s, prefix) ==
    /\ Len(prefix) <= Len(s)
    /\ SubSeq(s, 1, Len(prefix)) = prefix

IsSpace(ch) == ch = " "

\* str.strip()
Strip(s) ==
    LET keep == {i \in 1..Len(s) : ~IsSpace(s[i])}
    IN  IF keep = {} THEN << >>
        ELSE LET lo == CHOOSE i \in keep : \A j \in keep : i <= j
                 hi == CHOOSE i \in keep : \A j \in keep : j <= i
             IN  SubSeq(s, lo, hi)

\* s.split(sep, 1)[1] for a one-character sep that occurs in s
SplitOnceTail(s, sep) ==
    LET at == CHOOSE i \in 1..Len(s) :
                  /\ s[i] = sep
                  /\ \A j \in 1..(i - 1) : s[j] # sep
    IN  SubSeq(s, at + 1, Len(s))

\* x or d, for x a text or None
OrElse(x, d) == IF x = None \/ x = << >> THEN d ELSE x

(***************************************************************************)
(* Python dict, as a function whose domain is the set of its keys          *)
(***************************************************************************)

EmptyDict == [k \in {} |-> None]

\* d.get(k) and d.get(k, default)
DictGet(d, k, default) == IF k \in DOMAIN d THEN d[k] ELSE default

\* d[k] = v
DictSet(d, k, v) == [x \in (DOMAIN d) \cup {k} |-> IF x = k THEN v ELSE d[x]]

\* d.setdefault(k, v), for its effect on d
DictSetDefault(d, k, v) == IF k \in DOMAIN d THEN d ELSE DictSet(d, k, v)

(***************************************************************************)
(* Texts of the program                                                    *)
(***************************************************************************)

S_Beginner == <<"B", "e", "g", "i", "n", "n", "e", "r">>
S_Intermediate == <<"I", "n", "t", "e", "r", "m", "e", "d", "i", "a", "t", "e">>
S_Advanced == <<"A", "d", "v", "a", "n", "c", "e", "d">>
S_Mixed == <<"M", "i", "x", "e", "d">>
S_COURSE == <<"C", "O", "U", "R", "S", "E">>
S_SPECIALIZATION == <<"S", "P", "E", "C", "I", "A", "L", "I", "Z", "A", "T", "I", "O", "N">>
S_PROFESSIONAL == <<"P", "R", "O", "F", "E", "S", "S", "I", "O", "N", "A", "L">>
S_PROFESSIONAL_CERTIFICATE == <<"P", "R", "O", "F", "E", "S", "S", "I", "O", "N", "A", "L", " ", "C", "E", "R", "T", "I", "F", "I", "C", "A", "T", "E">>
S_level_ == <<"l", "e", "v", "e", "l", "_">>
S_cert_ == <<"c", "e", "r", "t", "_">>
S_confirm_save == <<"c", "o", "n", "f", "i", "r", "m", "_", "s", "a", "v", "e">>
S_back_to_cert == <<"b", "a", "c", "k", "_", "t", "o", "_", "c", "e", "r", "t">>
S_back_to_level == <<"b", "a", "c", "k", "_", "t", "o", "_", "l", "e", "v", "e", "l">>
S_back_home == <<"b", "a", "c", "k", "_", "h", "o", "m", "e">>

(***************************************************************************)
(* The caller's preference post-filter                                     *)
(***************************************************************************)

\* ok(c) comparing the course's fields as written, without lower().
ok_case_sensitive(c, level, cert) ==
    /\ level # << >> => Contains(level, OrElse(c.difficulty, << >>))
    /\ cert # << >> => Contains(cert, OrElse(c.certificate_type, << >>))

\* ok(c), with level and cert the lowered preferences
ok(c, level, cert) ==
    /\ level # << >> => Contains(level, Lower(OrElse(c.difficulty, << >>)))
    /\ cert # << >> => Contains(cert, Lower(OrElse(c.certificate_type, << >>)))

RECURSIVE SelectSeq2(_, _, _)
\* [c for c in courses if ok(c)]
SelectSeq2(courses, level, cert) ==
    IF courses = << >> THEN << >>
    ELSE LET rest == SelectSeq2(Tail(courses), level, cert)
         IN  IF ok(Head(courses), level, cert)
             THEN <<Head(courses)>> \o rest
             ELSE rest

_apply_user_filters(courses, prefs) ==
    LET level == Lower(OrElse(DictGet(prefs, "difficulty", None), << >>))
        cert == Lower(OrElse(DictGet(prefs, "certificate_type", None), << >>))
    IN  SelectSeq2(courses, level, cert)

(***************************************************************************)
(* The engine: recommender.CourseRecommender, after spec.md                *)
(***************************************************************************)

\* The dataset at DATA_PATH: its raw rows, or a file that cannot be
\* located or parsed.
Dataset(rows) == [readable |-> TRUE, rows |-> rows]

Unreadable == [readable |-> FALSE, rows |-> << >>]

\* Characters in code-point order, for comparing titles.
Alphabet == <<" ">> \o UpperCase \o LowerCase

CharCode(ch) == CHOOSE i \in 1..Len(Alphabet) : Alphabet[i] = ch

RECURSIVE TextLess(_, _)
\* a < b, lexicographically
TextLess(a, b) ==
    IF b = << >> THEN FALSE
    ELSE IF a = << >> THEN TRUE
    ELSE IF Head(a) = Head(b) THEN TextLess(Tail(a), Tail(b))
    ELSE CharCode(Head(a)) < CharCode(Head(b))

\* Field Normalizer, categorical field: trimmed text, empty becomes unset.
NormalizeCategorical(raw) ==
    IF raw = None \/ Strip(raw) = << >> THEN None ELSE Strip(raw)

\* A raw numeric field that does not parse ("N/A", garbage, missing).
Unparsed == -1

\* Field Normalizer, numeric field: unparseable or missing becomes 0.
NormalizeNumber(raw) == IF raw < 0 THEN 0 ELSE raw

\* Rating parsing: unparseable or out of range becomes 0 (tenths: 0..50).
NormalizeRating(raw) == IF raw < 0 \/ raw > 50 THEN 0 ELSE raw

\* A row is usable when it has a title.
RowUsable(row) == row.title # None /\ Strip(row.title) # << >>

\* Field Normalizer: one raw row to one Course record.
NormalizeRow(row) ==
    [title |-> Strip(row.title),
     organization |-> NormalizeCategorical(row.organization),
     certificate_type |-> NormalizeCategorical(row.certificate_type),
     difficulty |-> NormalizeCategorical(row.difficulty),
     rating |-> NormalizeRating(row.rating),
     students_enrolled |-> NormalizeNumber(row.students_enrolled)]

RECURSIVE Normalize(_)
\* The Catalog of a dataset: the usable rows, normalized, in row order.
Normalize(rows) ==
    IF rows = << >> THEN << >>
    ELSE IF RowUsable(Head(rows))
         THEN <<NormalizeRow(Head(rows))>> \o Normalize(Tail(rows))
         ELSE Normalize(Tail(rows))

\* build_engine: fails with LoadError when the dataset cannot be read or
\* yields no valid record.
LoadFails(data) == ~data.readable \/ Normalize(data.rows) = << >>

IsSeparator(ch) == ch \in {" ", ",", ".", "-", "!", "?", ";", ":"}

RECURSIVE Tokenize(_, _)
\* The tokens of a text, split on whitespace and punctuation; cur is the
\* token being read.
Tokenize(s, cur) ==
    IF s = << >> THEN (IF cur = << >> THEN << >> ELSE <<cur>>)
    ELSE IF IsSeparator(Head(s))
         THEN (IF cur = << >> THEN << >> ELSE <<cur>>) \o Tokenize(Tail(s), << >>)
         ELSE Tokenize(Tail(s), Append(cur, Head(s)))

\* Step 1 of recommend: the normalized query.
NormalizeQuery(query) == Strip(Lower(query))

\* The searchable text of a record: title, and organization if present.
SearchableText(c) ==
    Lower(c.title) \o <<" ">> \o Lower(OrElse(c.organization, << >>))

TextScale == 100

PhraseBonus == 20

\* Step 2 of recommend: the fraction of query tokens found in the
\* searchable text, plus the exact-phrase boost.
TextRelevance(c, query) ==
    LET q == NormalizeQuery(query)
        tokens == Tokenize(q, << >>)
        found == {i \in 1..Len(tokens) : Contains(tokens[i], SearchableText(c))}
    IN  IF tokens = << >> THEN 0
        ELSE (TextScale * Cardinality(found)) \div Len(tokens)
             + (IF Contains(q, Lower(c.title)) THEN PhraseBonus ELSE 0)

PriorHalfLife == 10000

\* Step 3 of recommend: the quality prior, increasing and saturating in
\* rating (0..5) and in enrollment (0..4).
QualityPrior(c) ==
    (c.rating \div 10)
    + ((5 * c.students_enrolled) \div (c.students_enrolled + PriorHalfLife))

CompositeScore(c, query) == TextRelevance(c, query) + QualityPrior(c)

\* The relevance floor: above every quality prior, so that no record is
\* returned on its prior alone.
RelevanceFloor == 10

\* a is ranked before b: k1, k2, k3 descending, then title ascending.
RankedBefore(a, b) ==
    \/ a.k1 > b.k1
    \/ a.k1 = b.k1 /\ a.k2 > b.k2
    \/ a.k1 = b.k1 /\ a.k2 = b.k2 /\ a.k3 > b.k3
    \/ a.k1 = b.k1 /\ a.k2 = b.k2 /\ a.k3 = b.k3 /\ TextLess(a.title, b.title)

RECURSIVE InsertRanked(_, _)
\* e put into the ranked sequence s, after every entry it is not before.
InsertRanked(e, s) ==
    IF s = << >> THEN <<e>>
    ELSE IF RankedBefore(e, Head(s)) THEN <<e>> \o s
    ELSE <<Head(s)>> \o InsertRanked(e, Tail(s))

RECURSIVE SortRanked(_)
\* A stable sort: entries that tie on every key keep their input order.
SortRanked(s) ==
    IF s = << >> THEN << >>
    ELSE InsertRanked(s[Len(s)], SortRanked(SubSeq(s, 1, Len(s) - 1)))

FirstK(s, k) == SubSeq(s, 1, IF k < Len(s) THEN k ELSE Len(s))

\* recommend without the relevance floor: the best-scored records, however
\* low their score.
recommend_padded(cat, query, top_k) ==
    LET keyed == [i \in 1..Len(cat) |->
                     [k1 |-> CompositeScore(cat[i], query),
                      k2 |-> cat[i].rating,
                      k3 |-> cat[i].students_enrolled,
                      title |-> cat[i].title,
                      course |-> cat[i]]]
        sorted == SortRanked(keyed)
    IN  IF top_k <= 0 THEN << >>
        ELSE [i \in 1..Len(FirstK(sorted, top_k)) |-> sorted[i].course]

\* recommend cutting its result as a slice does: a negative top_k drops
\* that many records from the end.
recommend_slice(cat, query, top_k) ==
    LET eligible == SelectSeq(cat, LAMBDA c : CompositeScore(c, query) >= RelevanceFloor)
        keyed == [i \in 1..Len(eligible) |->
                     [k1 |-> CompositeScore(eligible[i], query),
                      k2 |-> eligible[i].rating,
                      k3 |-> eligible[i].students_enrolled,
                      title |-> eligible[i].title,
                      course |-> eligible[i]]]
        sorted == SortRanked(keyed)
        n == IF top_k < 0 THEN Len(sorted) + top_k ELSE top_k
    IN  IF n <= 0 THEN << >>
        ELSE [i \in 1..Len(FirstK(sorted, n)) |-> sorted[i].course]

\* Steps 4 and 5 of recommend: the eligible records by composite score,
\* then rating, then students_enrolled, then title.
recommend(cat, query, top_k) ==
    LET eligible == SelectSeq(cat, LAMBDA c : CompositeScore(c, query) >= RelevanceFloor)
        keyed == [i \in 1..Len(eligible) |->
                     [k1 |-> CompositeScore(eligible[i], query),
                      k2 |-> eligible[i].rating,
                      k3 |-> eligible[i].students_enrolled,
                      title |-> eligible[i].title,
                      course |-> eligible[i]]]
        sorted == SortRanked(keyed)
    IN  IF top_k <= 0 THEN << >>
        ELSE [i \in 1..Len(FirstK(sorted, top_k)) |-> sorted[i].course]

\* trending by students_enrolled alone, ties left in catalog order.
trending_no_tiebreak(cat, top_k) ==
    LET keyed == [i \in 1..Len(cat) |->
                     [k1 |-> cat[i].students_enrolled,
                      k2 |-> 0,
                      k3 |-> 0,
                      title |-> << >>,
                      course |-> cat[i]]]
        sorted == SortRanked(keyed)
    IN  IF top_k <= 0 THEN << >>
        ELSE [i \in 1..Len(FirstK(sorted, top_k)) |-> sorted[i].course]

\* trending: the catalog by students_enrolled, then rating, then title.
trending(cat, top_k) ==
    LET keyed == [i \in 1..Len(cat) |->
                     [k1 |-> cat[i].students_enrolled,
                      k2 |-> cat[i].rating,
                      k3 |-> 0,
                      title |-> cat[i].title,
                      course |-> cat[i]]]
        sorted == SortRanked(keyed)
    IN  IF top_k <= 0 THEN << >>
        ELSE [i \in 1..Len(FirstK(sorted, top_k)) |-> sorted[i].course]

(***************************************************************************)
(* Menus and callback data                                                 *)
(***************************************************************************)

\* The callback_data of the first row of the level menu and of the
\* certificate menu, in button order.
LevelButtons ==
    <<S_level_ \o S_Beginner, S_level_ \o S_Intermediate, S_level_ \o S_Advanced>>

CertButtons ==
    <<S_cert_ \o S_COURSE, S_cert_ \o S_SPECIALIZATION, S_cert_ \o S_PROFESSIONAL>>

Range(f) == {f[i] : i \in DOMAIN f}

\* The callback_data of the buttons of each menu.
render_level_menu == Range(LevelButtons) \cup {S_back_home}

render_cert_menu == Range(CertButtons) \cup {S_back_to_level, S_back_home}

render_confirm_menu ==
    {S_confirm_save, S_back_to_cert, S_back_to_level, S_back_home}

MenuNames == {"level", "cert", "confirm"}

MenuData(m) ==
    CASE m = "level" -> render_level_menu
      [] m = "cert" -> render_cert_menu
      [] m = "confirm" -> render_confirm_menu

AllCallbackData == UNION {MenuData(m) : m \in MenuNames}

(***************************************************************************)
(* Bounds and inputs                                                       *)
(***************************************************************************)

\* Chats that talk to the bot.
NumChats == 2

Chats == 1..NumChats

\* The level buttons and the certificate buttons users press: the first
\* ones of each row.
LevelsPressed == 2

CertsPressed == 2

Pressable ==
    (AllCallbackData \ (Range(LevelButtons) \cup Range(CertButtons)))
    \cup {LevelButtons[i] : i \in 1..LevelsPressed}
    \cup {CertButtons[i] : i \in 1..CertsPressed}

\* Handler coroutines in flight at once.
MaxTasks == 1

TaskIds == 1..MaxTasks

\* top_k of the two engine calls of the bot.
RecommendTopK == 25

TrendingTopK == 10

\* Courses shown per reply.
ShowMax == 5

Q_py == <<"p", "y">>

Q_zz == <<"z", "z">>

\* Message texts: blank, matching, matching nothing.
BotTexts == {<<" ">>, <<" ">> \o Q_py, Q_zz}

Row(title, org, cert, diff, rating, students) ==
    [title |-> title, organization |-> org, certificate_type |-> cert,
     difficulty |-> diff, rating |-> rating, students_enrolled |-> students]

T_PythonForBeginners == <<"P", "y", "t", "h", "o", "n", " ", "f", "o", "r", " ", "B", "e", "g", "i", "n", "n", "e", "r", "s">>
T_AdvancedPython == <<"A", "d", "v", "a", "n", "c", "e", "d", " ", "P", "y", "t", "h", "o", "n">>
T_ExcelBasics == <<"E", "x", "c", "e", "l", " ", "B", "a", "s", "i", "c", "s">>
Q_python == <<"p", "y", "t", "h", "o", "n">>

\* The three courses of the specification's example, as raw rows, after a
\* row without a title.
ExampleRows ==
    <<Row(<<" ">>, << >>, S_COURSE, S_Beginner, 50, 99000),
      Row(T_PythonForBeginners, << >>, S_COURSE, S_Beginner, 45, 10000),
      Row(T_AdvancedPython, << >>, S_SPECIALIZATION, S_Advanced, 48, 2000),
      Row(T_ExcelBasics, << >>, << >>, << >>, 40, 50000)>>

CourseA == NormalizeRow(ExampleRows[2])

CourseB == NormalizeRow(ExampleRows[3])

CourseC == NormalizeRow(ExampleRows[4])

\* Twelve rows: more than TrendingTopK, with more than ShowMax matches of
\* "py", and one Advanced specialization ranked eleventh by enrollment.
BigRows ==
    <<Row(<<"P", "y", " ", "A">>, << >>, S_COURSE, S_Beginner, 45, 12000),
      Row(<<"P", "y", " ", "B">>, << >>, S_COURSE, S_Beginner, 40, 11000),
      Row(<<"P", "y", " ", "C">>, << >>, S_SPECIALIZATION, S_Intermediate, 48, 10000),
      Row(<<"P", "y", " ", "D">>, << >>, S_COURSE, S_Beginner, 47, 9000),
      Row(<<"P", "y", " ", "E">>, << >>, S_COURSE, S_Mixed, 30, 8000),
      Row(<<"P", "y", " ", "F">>, << >>, S_COURSE, S_Beginner, 41, 7000),
      Row(<<"P", "y", " ", "G">>, << >>, S_COURSE, S_Beginner, 42, 6000),
      Row(<<"P", "y", " ", "H">>, << >>, << >>, << >>, 39, 5000),
      Row(<<"m", "l", " ", "A">>, << >>, S_PROFESSIONAL_CERTIFICATE, S_Intermediate, 44, 4000),
      Row(<<"m", "l", " ", "B">>, << >>, S_COURSE, S_Intermediate, 43, 3000),
      Row(<<"m", "l", " ", "C">>, << >>, S_SPECIALIZATION, S_Advanced, 46, 2000),
      Row(<<"m", "l", " ", "D">>, << >>, S_COURSE, S_Beginner, Unparsed, Unparsed)>>

\* A dataset none of whose rows has a title.
DirtyRows == <<Row(<<" ">>, << >>, S_COURSE, S_Beginner, 45, 100)>>

BotDatasets == {Unreadable, Dataset(DirtyRows), Dataset(ExampleRows)}

(***************************************************************************)
(* State                                                                   *)
(***************************************************************************)

VARIABLES
    phase,      \* "import", "loaded", "running" or "exited"
    dataset,    \* the rows at DATA_PATH, or Unreadable
    token,      \* whether BOT_TOKEN is set
    catalog,    \* the Catalog of RECO, << >> before RECO exists
    built,      \* how many times the engine was constructed
    handlers,   \* the callbacks registered with the application
    USERS,      \* chat id -> preference dict
    tasks,      \* the handler coroutines, by slot
    rendered,   \* chat id -> the menus on the chat's screen
    probe       \* the last direct call of recommend, trending or the filter

vars == <<phase, dataset, token, catalog, built, handlers, USERS, tasks,
          rendered, probe>>

\* A call of the engine: the operation and its arguments.
NoCall == [op |-> "none", query |-> << >>, top_k |-> 0]

\* A handler coroutine; prefs is what it read of USERS for its chat, call
\* and pool the engine call it made and what the call returned.
IdleTask ==
    [kind |-> "none", pc |-> "idle", chat |-> 0, text |-> << >>,
     data |-> << >>, has_message |-> FALSE, courses |-> << >>, i |-> 0,
     sent |-> << >>, exc |-> "none", escaped |-> FALSE, call |-> NoCall,
     pool |-> << >>, repeat |-> FALSE, apology |-> "none",
     prefs |-> EmptyDict]

NoProbe ==
    [op |-> "none", query |-> << >>, top_k |-> 0, prefs |-> EmptyDict,
     input |-> << >>, out |-> << >>]

AllHandlers ==
    {"start", "help_cmd", "top", "setprefs", "button", "on_message",
     "error_handler"}

Init ==
    /\ phase = "import"
    /\ dataset \in BotDatasets
    /\ token \in BOOLEAN
    \* menus shown by an earlier run of the bot may still be on screen
    /\ rendered \in {[c \in Chats |-> {}], [c \in Chats |-> MenuNames]}
    /\ catalog = << >>
    /\ built = 0
    /\ handlers = {}
    /\ USERS = EmptyDict
    /\ tasks = [t \in TaskIds |-> IdleTask]
    /\ probe = NoProbe

(***************************************************************************)
(* Start-up                                                                *)
(***************************************************************************)

\* The import with the LoadError caught: the module loads without an
\* engine.
LoadModule_swallow ==
    /\ phase = "import"
    /\ phase' = "loaded"
    /\ IF LoadFails(dataset)
       THEN UNCHANGED <<catalog, built>>
       ELSE /\ catalog' = Normalize(dataset.rows)
            /\ built' = built + 1
    /\ UNCHANGED <<dataset, token, handlers, USERS, tasks, rendered, probe>>

\* RECO = CourseRecommender(DATA_PATH); USERS = {}.  A LoadError ends the
\* import, and with it the process.
LoadModule ==
    /\ phase = "import"
    /\ IF LoadFails(dataset)
       THEN /\ phase' = "exited"
            /\ UNCHANGED <<catalog, built>>
       ELSE /\ phase' = "loaded"
            /\ catalog' = Normalize(dataset.rows)
            /\ built' = built + 1
    /\ UNCHANGED <<dataset, token, handlers, USERS, tasks, rendered, probe>>

\* main(): without BOT_TOKEN it raises; otherwise it registers the
\* handlers and starts polling.
main ==
    /\ phase = "loaded"
    /\ IF ~token
       THEN /\ phase' = "exited"
            /\ UNCHANGED handlers
       ELSE /\ phase' = "running"
            /\ handlers' = AllHandlers
    /\ UNCHANGED <<dataset, token, catalog, built, USERS, tasks, rendered, probe>>

(***************************************************************************)
(* Updates and their dispatch                                              *)
(***************************************************************************)

\* A message the bot sent: its kind and, for a course message, the course.
Msg(kind, body) == [kind |-> kind, body |-> body]

\* The callback data a chat can send: the buttons shown to it.
DataOnScreen(chat) == UNION {MenuData(m) : m \in rendered[chat]}

\* The engine call a handler makes for an update, NoCall if none.
CallOf(kind, text) ==
    IF kind = "top"
    THEN [op |-> "trending", query |-> << >>, top_k |-> TrendingTopK]
    ELSE IF kind = "on_message" /\ Strip(text) # << >>
    THEN [op |-> "recommend", query |-> Strip(text), top_k |-> RecommendTopK]
    ELSE NoCall

\* Where each handler starts.
EntryPc(kind) == IF kind = "button" THEN "button_answer" ELSE kind

\* The task of a new update in a slot whose last task was old; repeat
\* notes that old made the engine call this one is going to make.
NewTask(old, kind, chat, text, data) ==
    [IdleTask EXCEPT !.kind = kind, !.pc = EntryPc(kind), !.chat = chat,
                     !.text = text, !.data = data, !.has_message = TRUE,
                     !.repeat = old.call # NoCall /\ old.call = CallOf(kind, text)]

\* The application takes one update and starts the handler registered for
\* it: a command, a text message or a callback query.
Dispatch(t) ==
    /\ phase = "running"
    /\ tasks[t].pc \in {"idle", "done"}
    /\ \E chat \in Chats :
          \/ \E kind \in {"start", "help_cmd", "top", "setprefs"} \cap handlers :
                tasks' = [tasks EXCEPT ![t] = NewTask(@, kind, chat, << >>, << >>)]
          \/ /\ "on_message" \in handlers
             /\ \E text \in BotTexts :
                   tasks' = [tasks EXCEPT ![t] = NewTask(@, "on_message", chat, text, << >>)]
          \/ /\ "button" \in handlers
             /\ \E data \in DataOnScreen(chat) \cap Pressable :
                   tasks' = [tasks EXCEPT ![t] = NewTask(@, "button", chat, << >>, data)]
    /\ UNCHANGED <<phase, dataset, token, catalog, built, handlers, USERS,
                   rendered, probe>>

\* An error outside any update (polling): the error handler runs with no
\* update.
PollError(t) ==
    /\ phase = "running"
    /\ tasks[t].pc \in {"idle", "done"}
    /\ "error_handler" \in handlers
    /\ tasks' = [tasks EXCEPT ![t] =
                    [IdleTask EXCEPT !.kind = "error_handler",
                                     !.pc = "error_handler", !.exc = "io"]]
    /\ UNCHANGED <<phase, dataset, token, catalog, built, handlers, USERS,
                   rendered, probe>>

\* A handler raised: the application hands the exception to the error
\* handler, if one is registered; otherwise nothing consumes it.
Raised(rec, cause) ==
    IF "error_handler" \in handlers
    THEN [rec EXCEPT !.pc = "error_handler", !.exc = cause]
    ELSE [rec EXCEPT !.pc = "done", !.exc = cause, !.escaped = TRUE]

\* await reply: the message is sent, or the call raises.
Replied(rec, sendOk, msg, next) ==
    IF sendOk THEN [rec EXCEPT !.sent = Append(@, msg), !.pc = next]
    ELSE Raised(rec, "io")

(***************************************************************************)
(* Handlers                                                                *)
(***************************************************************************)

start(t) ==
    /\ tasks[t].pc = "start"
    /\ \E sendOk \in BOOLEAN :
          tasks' = [tasks EXCEPT ![t] = Replied(@, sendOk, Msg("start", << >>), "done")]
    /\ UNCHANGED <<phase, dataset, token, catalog, built, handlers, USERS,
                   rendered, probe>>

help_cmd(t) ==
    /\ tasks[t].pc = "help_cmd"
    /\ \E sendOk \in BOOLEAN :
          tasks' = [tasks EXCEPT ![t] = Replied(@, sendOk, Msg("help", << >>), "done")]
    /\ UNCHANGED <<phase, dataset, token, catalog, built, handlers, USERS,
                   rendered, probe>>

\* rendered after a menu was shown in a chat
Shown(chat, menu) == [rendered EXCEPT ![chat] = @ \cup {menu}]

\* setprefs starting the chat over with an empty dict.
setprefs_reset(t) ==
    /\ tasks[t].pc = "setprefs"
    /\ USERS' = DictSet(USERS, tasks[t].chat, EmptyDict)
    /\ \E sendOk \in BOOLEAN :
          /\ tasks' = [tasks EXCEPT ![t] =
                          Replied(@, sendOk, Msg("level_menu", << >>), "done")]
          /\ rendered' = IF sendOk THEN Shown(tasks[t].chat, "level") ELSE rendered
    /\ UNCHANGED <<phase, dataset, token, catalog, built, handlers, probe>>

setprefs(t) ==
    /\ tasks[t].pc = "setprefs"
    /\ USERS' = DictSetDefault(USERS, tasks[t].chat, EmptyDict)
    /\ \E sendOk \in BOOLEAN :
          /\ tasks' = [tasks EXCEPT ![t] =
                          Replied(@, sendOk, Msg("level_menu", << >>), "done")]
          /\ rendered' = IF sendOk THEN Shown(tasks[t].chat, "level") ELSE rendered
    /\ UNCHANGED <<phase, dataset, token, catalog, built, handlers, probe>>

\* await query.answer()
button_answer(t) ==
    /\ tasks[t].pc = "button_answer"
    /\ \E sendOk \in BOOLEAN :
          tasks' = [tasks EXCEPT ![t] =
                       IF sendOk THEN [@ EXCEPT !.pc = "button"] ELSE Raised(@, "io")]
    /\ UNCHANGED <<phase, dataset, token, catalog, built, handlers, USERS,
                   rendered, probe>>

\* button_store writing a fresh dict for the chat: choosing one preference
\* forgets the other.
button_store_reset(users, chat, data) ==
    IF StartsWith(data, S_level_)
    THEN [users EXCEPT ![chat] = DictSet(EmptyDict, "difficulty", SplitOnceTail(data, "_"))]
    ELSE IF StartsWith(data, S_cert_)
    THEN [users EXCEPT ![chat] = DictSet(EmptyDict, "certificate_type", SplitOnceTail(data, "_"))]
    ELSE users

\* button_store with Cancel forgetting what the chat had chosen.
button_store_cancel_clears(users, chat, data) ==
    IF StartsWith(data, S_level_)
    THEN [users EXCEPT ![chat] = DictSet(@, "difficulty", SplitOnceTail(data, "_"))]
    ELSE IF StartsWith(data, S_cert_)
    THEN [users EXCEPT ![chat] = DictSet(@, "certificate_type", SplitOnceTail(data, "_"))]
    ELSE IF data = S_back_home
    THEN [users EXCEPT ![chat] = EmptyDict]
    ELSE users

\* USERS after button's branch on data, for a chat that has an entry.
button_store(users, chat, data) ==
    IF StartsWith(data, S_level_)
    THEN [users EXCEPT ![chat] = DictSet(@, "difficulty", SplitOnceTail(data, "_"))]
    ELSE IF StartsWith(data, S_cert_)
    THEN [users EXCEPT ![chat] = DictSet(@, "certificate_type", SplitOnceTail(data, "_"))]
    ELSE users

\* button_screen with the certificate step left out: choosing a level
\* brings up the review keyboard.
button_screen_skip(data) ==
    IF StartsWith(data, S_level_) THEN [kind |-> "step2", menu |-> "confirm"]
    ELSE IF StartsWith(data, S_cert_) THEN [kind |-> "step3", menu |-> "confirm"]
    ELSE IF data = S_confirm_save THEN [kind |-> "saved", menu |-> "none"]
    ELSE IF data = S_back_to_cert THEN [kind |-> "back_step2", menu |-> "cert"]
    ELSE IF data = S_back_to_level THEN [kind |-> "back_step1", menu |-> "level"]
    ELSE IF data = S_back_home THEN [kind |-> "cancelled", menu |-> "none"]
    ELSE [kind |-> "none", menu |-> "none"]

\* The message button edits in, and the menu it carries ("none": no menu;
\* kind "none": no branch matches and nothing is sent).
button_screen(data) ==
    IF StartsWith(data, S_level_) THEN [kind |-> "step2", menu |-> "cert"]
    ELSE IF StartsWith(data, S_cert_) THEN [kind |-> "step3", menu |-> "confirm"]
    ELSE IF data = S_confirm_save THEN [kind |-> "saved", menu |-> "none"]
    ELSE IF data = S_back_to_cert THEN [kind |-> "back_step2", menu |-> "cert"]
    ELSE IF data = S_back_to_level THEN [kind |-> "back_step1", menu |-> "level"]
    ELSE IF data = S_back_home THEN [kind |-> "cancelled", menu |-> "none"]
    ELSE [kind |-> "none", menu |-> "none"]

\* The rest of button, from USERS.setdefault to the edited message.
button(t) ==
    LET chat == tasks[t].chat
        data == tasks[t].data
        screen == button_screen(data)
        \* what the edited message displays of the stored preferences
        shown == DictGet(USERS'[chat], "difficulty", None)
        shownCert == DictGet(USERS'[chat], "certificate_type", None)
        body == IF screen.kind \in {"step3", "saved"}
                THEN <<[difficulty |-> shown, certificate_type |-> shownCert]>>
                ELSE << >>
    IN  /\ tasks[t].pc = "button"
        /\ USERS' = button_store(DictSetDefault(USERS, chat, EmptyDict), chat, data)
        /\ IF screen.kind = "none"
           THEN /\ tasks' = [tasks EXCEPT ![t].pc = "done"]
                /\ UNCHANGED rendered
           ELSE \E sendOk \in BOOLEAN :
                   /\ tasks' = [tasks EXCEPT ![t] =
                                   Replied(@, sendOk, Msg(screen.kind, body), "done")]
                   /\ rendered' = IF sendOk /\ screen.menu # "none"
                                  THEN Shown(chat, screen.menu) ELSE rendered
        /\ UNCHANGED <<phase, dataset, token, catalog, built, handlers, probe>>

\* top_pick filtering the whole trending order instead of its first ten.
top_pick_all(cat, users, chat) ==
    LET prefs == DictGet(users, chat, EmptyDict)
        courses == trending(cat, Len(cat))
        kept == _apply_user_filters(courses, prefs)
    IN  IF kept # << >> THEN kept ELSE FirstK(courses, ShowMax)

\* The courses top sends: the trending courses that pass the filter, or
\* the first five trending courses when none passes.
top_pick(cat, users, chat) ==
    LET prefs == DictGet(users, chat, EmptyDict)
        courses == trending(cat, TrendingTopK)
        kept == _apply_user_filters(courses, prefs)
    IN  IF kept # << >> THEN kept ELSE FirstK(courses, ShowMax)

\* top taking the courses it shows out of the engine's own list.
top_pop(t) ==
    LET courses == top_pick(catalog, USERS, tasks[t].chat)
    IN  /\ tasks[t].pc = "top"
        /\ catalog' = Tail(catalog)
        /\ \E sendOk \in BOOLEAN :
              tasks' = [tasks EXCEPT ![t] =
                  Replied([@ EXCEPT !.courses = courses,
                                    !.prefs = DictGet(USERS, tasks[t].chat, EmptyDict),
                                    !.call = CallOf("top", << >>),
                                    !.pool = trending(catalog, TrendingTopK)],
                          sendOk, Msg("header", << >>),
                          IF FirstK(courses, ShowMax) = << >> THEN "done" ELSE "top_loop")]
        /\ UNCHANGED <<phase, dataset, token, built, handlers, USERS,
                       rendered, probe>>

\* top, to its first reply.
top(t) ==
    LET courses == top_pick(catalog, USERS, tasks[t].chat)
    IN  /\ tasks[t].pc = "top"
        /\ \E sendOk \in BOOLEAN :
              tasks' = [tasks EXCEPT ![t] =
                  Replied([@ EXCEPT !.courses = courses,
                                    !.prefs = DictGet(USERS, tasks[t].chat, EmptyDict),
                                    !.call = CallOf("top", << >>),
                                    !.pool = trending(catalog, TrendingTopK)],
                          sendOk, Msg("header", << >>),
                          IF FirstK(courses, ShowMax) = << >> THEN "done" ELSE "top_loop")]
        /\ UNCHANGED <<phase, dataset, token, catalog, built, handlers, USERS,
                       rendered, probe>>

\* One round of "for c in courses[:5]: await reply_html(...)".
SendNext(rec, sendOk, loop) ==
    LET show == FirstK(rec.courses, ShowMax)
        next == IF rec.i + 1 < Len(show) THEN loop ELSE "done"
    IN  Replied([rec EXCEPT !.i = IF sendOk THEN @ + 1 ELSE @], sendOk,
                Msg("course", <<show[rec.i + 1]>>), next)

\* top_loop reading the preferences again before each course message.
top_loop_reread(t) ==
    /\ tasks[t].pc = "top_loop"
    /\ \E sendOk \in BOOLEAN :
          LET again == [tasks[t] EXCEPT
                           !.courses = top_pick(catalog, USERS, tasks[t].chat)]
          IN  tasks' = [tasks EXCEPT ![t] =
                  IF again.i < Len(FirstK(again.courses, ShowMax))
                  THEN SendNext(again, sendOk, "top_loop")
                  ELSE [again EXCEPT !.pc = "done"]]
    /\ UNCHANGED <<phase, dataset, token, catalog, built, handlers, USERS,
                   rendered, probe>>

top_loop(t) ==
    /\ tasks[t].pc = "top_loop"
    /\ \E sendOk \in BOOLEAN :
          tasks' = [tasks EXCEPT ![t] = SendNext(@, sendOk, "top_loop")]
    /\ UNCHANGED <<phase, dataset, token, catalog, built, handlers, USERS,
                   rendered, probe>>

\* on_message_pick with the fallback written pool[0], which raises
\* IndexError on an empty pool.
on_message_pick_index(cat, users, chat, text) ==
    LET prefs == DictGet(users, chat, EmptyDict)
        pool == recommend(cat, text, RecommendTopK)
        picked == _apply_user_filters(pool, prefs)
    IN  [raised |-> picked = << >> /\ pool = << >>,
         picked |-> IF picked = << >> THEN FirstK(pool, 1) ELSE picked]

\* on_message_pick filling a short filtered list up with the rest of the
\* pool.
on_message_pick_pad(cat, users, chat, text) ==
    LET prefs == DictGet(users, chat, EmptyDict)
        pool == recommend(cat, text, RecommendTopK)
        picked == _apply_user_filters(pool, prefs)
        rest == SelectSeq(pool, LAMBDA c : \A i \in DOMAIN picked : picked[i] # c)
    IN  [raised |-> FALSE,
         picked |-> IF Len(picked) < ShowMax THEN picked \o rest ELSE picked]

\* The courses on_message sends for a text: the pool filtered, or the first
\* five of the pool when the filter leaves nothing.  raised: whether
\* computing them raises.
on_message_pick(cat, users, chat, text) ==
    LET prefs == DictGet(users, chat, EmptyDict)
        pool == recommend(cat, text, RecommendTopK)
        picked == _apply_user_filters(pool, prefs)
    IN  [raised |-> FALSE,
         picked |-> IF picked = << >> THEN FirstK(pool, ShowMax) ELSE picked]

\* on_message, to its first reply.
on_message(t) ==
    LET text == Strip(tasks[t].text)
        got == on_message_pick(catalog, USERS, tasks[t].chat, text)
    IN  /\ tasks[t].pc = "on_message"
        /\ IF text = << >>
           THEN tasks' = [tasks EXCEPT ![t].pc = "done"]
           ELSE LET called == [tasks[t] EXCEPT
                                  !.prefs = DictGet(USERS, tasks[t].chat, EmptyDict),
                                  !.call = CallOf("on_message", text),
                                  !.pool = recommend(catalog, text, RecommendTopK)]
                IN  IF got.raised
                    THEN tasks' = [tasks EXCEPT ![t] = Raised(called, "code")]
                    ELSE \E sendOk \in BOOLEAN :
                            tasks' = [tasks EXCEPT ![t] =
                                Replied([called EXCEPT !.courses = got.picked],
                                        sendOk, Msg("header", << >>),
                                        IF FirstK(got.picked, ShowMax) = << >>
                                        THEN "done" ELSE "on_message_loop")]
        /\ UNCHANGED <<phase, dataset, token, catalog, built, handlers, USERS,
                       rendered, probe>>

on_message_loop(t) ==
    /\ tasks[t].pc = "on_message_loop"
    /\ \E sendOk \in BOOLEAN :
          tasks' = [tasks EXCEPT ![t] = SendNext(@, sendOk, "on_message_loop")]
    /\ UNCHANGED <<phase, dataset, token, catalog, built, handlers, USERS,
                   rendered, probe>>

\* error_handler without its try/except: an exception of the reply leaves
\* the handler.
error_handler_run_no_try(rec, sendOk) ==
    [rec EXCEPT !.pc = "done",
                !.sent = IF rec.has_message /\ sendOk
                         THEN Append(@, Msg("apology", << >>)) ELSE @,
                !.apology = IF ~rec.has_message THEN "skipped"
                            ELSE IF sendOk THEN "sent" ELSE "failed",
                !.escaped = rec.has_message /\ ~sendOk]

\* The task after error_handler: the apology is sent when the update has a
\* message and the reply succeeds; an exception of the reply is swallowed.
error_handler_run(rec, sendOk) ==
    [rec EXCEPT !.pc = "done",
                !.sent = IF rec.has_message /\ sendOk
                         THEN Append(@, Msg("apology", << >>)) ELSE @,
                !.apology = IF ~rec.has_message THEN "skipped"
                            ELSE IF sendOk THEN "sent" ELSE "failed",
                !.escaped = FALSE]

error_handler(t) ==
    /\ tasks[t].pc = "error_handler"
    /\ \E sendOk \in BOOLEAN :
          tasks' = [tasks EXCEPT ![t] = error_handler_run(@, sendOk)]
    /\ UNCHANGED <<phase, dataset, token, catalog, built, handlers, USERS,
                   rendered, probe>>

(***************************************************************************)
(* The engine and the filter called directly, on catalogs of few rows      *)
(***************************************************************************)

\* Rows of the catalogs below.
MaxRows == 3

S_PyU == <<"P", "y", " ", "U">>

\* Two rows that share title, rating and enrollment; a row matching "py"
\* by its organization only; unset and oddly cased categorical fields; a
\* row without a title.
RowPool ==
    <<Row(<<"P", "y">>, << >>, S_COURSE, S_Beginner, 45, 20000),
      Row(<<"P", "y">>, << >>, S_COURSE, << >>, 45, 20000),
      Row(<<"P", "y", " ", "m", "l">>, << >>, S_SPECIALIZATION, S_Advanced, 45, 0),
      Row(<<"m", "l">>, S_PyU, S_PROFESSIONAL_CERTIFICATE, S_Beginner, 40, 20000),
      Row(<<"x", "l">>, << >>, << >>, S_Mixed, 48, 0),
      Row(<<"m", "l">>, << >>, <<" ", "c", "o", "u", "r", "s", "e">>,
          <<"b", "e", "g", "i", "n", "n", "e", "r">>, Unparsed, Unparsed),
      Row(<<" ">>, << >>, S_COURSE, S_Beginner, 50, 30000)>>

\* The sequences of at most MaxRows different rows of RowPool.
RowChoices ==
    UNION {{f \in [1..n -> 1..Len(RowPool)] :
               \A i, j \in 1..n : i # j => f[i] # f[j]} : n \in 0..MaxRows}

PureDatasets ==
    {Dataset([i \in DOMAIN f |-> RowPool[f[i]]]) : f \in RowChoices}
    \cup {Dataset(ExampleRows), Unreadable}

PureQueries ==
    {<< >>, <<"P", "Y", " ">>, <<"p", "y", ",", "m", "l">>, Q_zz, Q_python}

PureTopK == {-1, 0, 1, 2, RecommendTopK}

PurePrefs ==
    {EmptyDict,
     [k \in {"difficulty"} |-> S_Beginner],
     [k \in {"difficulty"} |-> S_Advanced],
     [k \in {"difficulty"} |-> << >>],
     [k \in {"certificate_type"} |-> S_COURSE],
     [k \in {"certificate_type"} |-> S_PROFESSIONAL],
     [k \in {"difficulty", "certificate_type"} |->
         IF k = "difficulty" THEN S_Beginner ELSE S_COURSE]}

InitPure ==
    /\ phase = "import"
    /\ dataset \in PureDatasets
    /\ token = TRUE
    /\ rendered = [c \in Chats |-> {}]
    /\ catalog = << >>
    /\ built = 0
    /\ handlers = {}
    /\ USERS = EmptyDict
    /\ tasks = [t \in TaskIds |-> IdleTask]
    /\ probe = NoProbe

\* RECO.recommend(query, top_k)
CallRecommend ==
    /\ phase = "loaded"
    /\ \E query \in PureQueries, top_k \in PureTopK :
          probe' = [NoProbe EXCEPT !.op = "recommend", !.query = query,
                                   !.top_k = top_k, !.input = catalog,
                                   !.out = recommend(catalog, query, top_k)]
    /\ UNCHANGED <<phase, dataset, token, catalog, built, handlers, USERS,
                   tasks, rendered>>

\* RECO.trending(top_k)
CallTrending ==
    /\ phase = "loaded"
    /\ \E top_k \in PureTopK :
          probe' = [NoProbe EXCEPT !.op = "trending", !.top_k = top_k,
                                   !.input = catalog,
                                   !.out = trending(catalog, top_k)]
    /\ UNCHANGED <<phase, dataset, token, catalog, built, handlers, USERS,
                   tasks, rendered>>

\* _apply_user_filters(courses, prefs), on the courses of the catalog
CallFilter ==
    /\ phase = "loaded"
    /\ \E prefs \in PurePrefs :
          probe' = [NoProbe EXCEPT !.op = "filter", !.prefs = prefs,
                                   !.input = catalog,
                                   !.out = _apply_user_filters(catalog, prefs)]
    /\ UNCHANGED <<phase, dataset, token, catalog, built, handlers, USERS,
                   tasks, rendered>>

NextPure == LoadModule \/ CallRecommend \/ CallTrending \/ CallFilter

SpecPure == InitPure /\ [][NextPure]_vars

(***************************************************************************)
(* The handlers that show courses, on a catalog of twelve rows             *)
(***************************************************************************)

\* The preference dicts the menus can leave stored for a chat.
ShowPrefs ==
    {[k \in keys |-> IF k = "difficulty" THEN level ELSE cert] :
        keys \in SUBSET {"difficulty", "certificate_type"},
        level \in {SplitOnceTail(b, "_") : b \in Range(LevelButtons)},
        cert \in {SplitOnceTail(b, "_") : b \in Range(CertButtons)}}

\* USERS with nothing stored, or with one chat's preferences stored.
ShowUsers ==
    {EmptyDict} \cup {[c \in {chat} |-> prefs] : chat \in Chats, prefs \in ShowPrefs}

\* The bot running on the twelve rows, after the chats used the menus.
InitShow ==
    /\ phase = "running"
    /\ dataset = Dataset(BigRows)
    /\ token = TRUE
    /\ rendered = [c \in Chats |-> MenuNames]
    /\ catalog = Normalize(BigRows)
    /\ built = 1
    /\ handlers = AllHandlers
    /\ USERS \in ShowUsers
    /\ tasks = [t \in TaskIds |-> IdleTask]
    /\ probe = NoProbe

\* The application takes a /top command or a text message.
DispatchShow(t) ==
    /\ phase = "running"
    /\ tasks[t].pc \in {"idle", "done"}
    /\ \E chat \in Chats :
          \/ tasks' = [tasks EXCEPT ![t] = NewTask(@, "top", chat, << >>, << >>)]
          \/ \E text \in BotTexts :
                tasks' = [tasks EXCEPT ![t] = NewTask(@, "on_message", chat, text, << >>)]
    /\ UNCHANGED <<phase, dataset, token, catalog, built, handlers, USERS,
                   rendered, probe>>

NextShow ==
    \E t \in TaskIds :
        \/ DispatchShow(t)
        \/ top(t)
        \/ top_loop(t)
        \/ on_message(t)
        \/ on_message_loop(t)
        \/ error_handler(t)

SpecShow == InitShow /\ [][NextShow]_vars

(***************************************************************************)
(* Handlers interleaved at their await points                              *)
(***************************************************************************)

\* Handler coroutines in flight at once when updates are handled
\* concurrently.
ConcTasks == 2

ConcIds == 1..ConcTasks

\* The chats whose updates are handled concurrently.
ConcChats == 1

\* The bot running on the example catalog, the menus on screen.
InitConc ==
    /\ phase = "running"
    /\ dataset = Dataset(ExampleRows)
    /\ token = TRUE
    /\ rendered = [c \in Chats |-> MenuNames]
    /\ catalog = Normalize(ExampleRows)
    /\ built = 1
    /\ handlers = AllHandlers
    /\ USERS = EmptyDict
    /\ tasks = [t \in ConcIds |-> IdleTask]
    /\ probe = NoProbe

\* The application starts the handler of an update while others are
\* suspended: slot 1 takes the /top commands and text messages, the other
\* slots the button callbacks.
DispatchConc(t) ==
    /\ phase = "running"
    /\ tasks[t].pc \in {"idle", "done"}
    /\ \E chat \in 1..ConcChats :
          IF t = 1
          THEN \/ tasks' = [tasks EXCEPT ![t] = NewTask(@, "top", chat, << >>, << >>)]
               \/ \E text \in BotTexts :
                     tasks' = [tasks EXCEPT ![t] =
                                  NewTask(@, "on_message", chat, text, << >>)]
          ELSE \E data \in DataOnScreen(chat) \cap Pressable :
                  tasks' = [tasks EXCEPT ![t] = NewTask(@, "button", chat, << >>, data)]
    /\ UNCHANGED <<phase, dataset, token, catalog, built, handlers, USERS,
                   rendered, probe>>

NextConc ==
    \E t \in ConcIds :
        \/ DispatchConc(t)
        \/ button_answer(t)
        \/ button(t)
        \/ top(t)
        \/ top_loop(t)
        \/ on_message(t)
        \/ on_message_loop(t)
        \/ error_handler(t)

SpecConc == InitConc /\ [][NextConc]_vars

Next ==
    \/ LoadModule
    \/ main
    \/ \E t \in TaskIds :
          \/ Dispatch(t)
          \/ PollError(t)
          \/ start(t)
          \/ help_cmd(t)
          \/ setprefs(t)
          \/ button_answer(t)
          \/ button(t)
          \/ top(t)
          \/ top_loop(t)
          \/ on_message(t)
          \/ on_message_loop(t)
          \/ error_handler(t)

Spec == Init /\ [][Next]_vars

\* The process started with no menu of an earlier run on any screen.
InitFresh == Init /\ rendered = [c \in Chats |-> {}]

SpecFresh == InitFresh /\ [][Next]_vars

(***************************************************************************)
(* Properties                                                              *)
(***************************************************************************)

\* The result of an engine call on a catalog.
EngineCall(cat, call) ==
    IF call.op = "trending" THEN trending(cat, call.top_k)
    ELSE recommend(cat, call.query, call.top_k)

Busy(t) == tasks[t].pc # "idle"

\* C1: once RECO exists, the catalog holds the records of the dataset as
\* normalized at construction, in that order, whatever handlers have run;
\* the only engine operations a handler invokes are recommend and trending.
C1_CatalogNeverChanged ==
    /\ built >= 1 => catalog = Normalize(dataset.rows)
    /\ \A t \in TaskIds : tasks[t].call.op \in {"none", "recommend", "trending"}

C1_Witness ==
    \E t \in TaskIds :
        /\ tasks[t].pc = "done"
        /\ tasks[t].call.op = "recommend"
        /\ tasks[t].courses # << >>
        /\ tasks[t].chat \in DOMAIN USERS
        /\ "difficulty" \in DOMAIN USERS[tasks[t].chat]

\* C2: the engine is constructed at most once; handlers are registered and
\* updates handled only after it was constructed, from a non-empty catalog;
\* when construction fails the process exits with no handler registered
\* and no update ever handled.
C2_ConstructedBeforeServing ==
    /\ built \in {0, 1}
    /\ (handlers # {} \/ phase = "running" \/ \E t \in TaskIds : Busy(t))
          => built = 1 /\ catalog # << >>
    /\ \A t \in TaskIds : tasks[t].call # NoCall => built = 1
    /\ (LoadFails(dataset) /\ phase # "import")
          => /\ phase = "exited"
             /\ built = 0
             /\ handlers = {}
             /\ \A t \in TaskIds : ~Busy(t)

C2_Witness ==
    /\ phase = "running"
    /\ built = 1
    /\ \E t \in TaskIds : tasks[t].call.op = "trending" /\ tasks[t].pc = "top_loop"

TrendingOrder(a, b) ==
    \/ a.students_enrolled > b.students_enrolled
    \/ /\ a.students_enrolled = b.students_enrolled
       /\ a.rating > b.rating
    \/ /\ a.students_enrolled = b.students_enrolled
       /\ a.rating = b.rating
       /\ ~TextLess(b.title, a.title)

Count(x, s) == Cardinality({i \in DOMAIN s : s[i] = x})

Min(a, b) == IF a < b THEN a ELSE b

\* C4: trending(top_k), top_k positive, returns min(top_k, catalog size)
\* records of the catalog, each adjacent pair ordered by students_enrolled
\* descending, then rating descending, then title ascending, and no record
\* left out may stand before a returned one; for top_k at least the catalog
\* size the result is a permutation of the catalog.  On the example catalog
\* trending(2) is [C, A].
C4_TrendingSorted ==
    (probe.op = "trending" /\ probe.top_k > 0) =>
        LET out == probe.out
            cat == probe.input
        IN  /\ Len(out) = Min(probe.top_k, Len(cat))
            /\ \A i \in 1..(Len(out) - 1) : TrendingOrder(out[i], out[i + 1])
            /\ \A x \in Range(out) : Count(x, out) <= Count(x, cat)
            /\ \A y \in Range(cat) :
                  Count(y, out) < Count(y, cat)
                      => \A x \in Range(out) : TrendingOrder(x, y)
            /\ probe.top_k >= Len(cat)
                  => \A x \in Range(cat) : Count(x, out) = Count(x, cat)
            /\ (cat = <<CourseA, CourseB, CourseC>> /\ probe.top_k = 2)
                  => out = <<CourseC, CourseA>>

\* trending(2) was called on a catalog of three records, two of them tied
\* on students_enrolled.
C4_Witness ==
    /\ probe.op = "trending"
    /\ probe.top_k = 2
    /\ Len(probe.input) = 3
    /\ Len(probe.out) = 2
    /\ probe.out[1].students_enrolled = probe.out[2].students_enrolled
    /\ probe.out[1].rating > probe.out[2].rating

\* C5: recommend(query, top_k), top_k positive, returns at most top_k
\* records of the catalog, none with a composite score below the relevance
\* floor, which is positive; for a query that is empty after normalization
\* it returns nothing; on the example catalog recommend("python", 2)
\* holds A and B and not C, whose quality prior is positive.
C5_NoIrrelevantRecord ==
    (probe.op = "recommend" /\ probe.top_k > 0) =>
        LET out == probe.out
            cat == probe.input
        IN  /\ Len(out) <= probe.top_k
            /\ RelevanceFloor > 0
            /\ \A i \in DOMAIN out :
                  /\ out[i] \in Range(cat)
                  /\ CompositeScore(out[i], probe.query) >= RelevanceFloor
            /\ Strip(Lower(probe.query)) = << >> => out = << >>
            /\ (cat = <<CourseA, CourseB, CourseC>> /\ probe.query = Q_python
                   /\ probe.top_k = 2)
                  => /\ Range(out) = {CourseA, CourseB}
                     /\ QualityPrior(CourseC) > 0

\* recommend left out a record of the catalog whose quality prior is
\* positive, and returned another.
C5_Witness ==
    /\ probe.op = "recommend"
    /\ probe.top_k = 2
    /\ probe.out # << >>
    /\ \E i \in DOMAIN probe.input :
          /\ probe.input[i] \notin Range(probe.out)
          /\ QualityPrior(probe.input[i]) > 0
          /\ CompositeScore(probe.input[i], probe.query) < RelevanceFloor

\* The catalog with its rows in the order perm.
Reordered(cat, perm) == [i \in DOMAIN cat |-> cat[perm[i]]]

Orders(n) == {f \in [1..n -> 1..n] : \A i, j \in 1..n : i # j => f[i] # f[j]}

FieldText(v) == IF v = None THEN << >> ELSE v

\* The stored preference for a key, the empty text when none is stored.
Preferred(prefs, key) == IF key \in DOMAIN prefs THEN prefs[key] ELSE << >>

\* The course's fields contain the preferred values, case-insensitively.
Satisfies(c, prefs) ==
    /\ Contains(Lower(Preferred(prefs, "difficulty")), Lower(FieldText(c.difficulty)))
    /\ Contains(Lower(Preferred(prefs, "certificate_type")),
                Lower(FieldText(c.certificate_type)))

\* C7: _apply_user_filters returns, in input order, exactly the courses
\* whose difficulty contains the preferred difficulty and whose
\* certificate_type contains the preferred certificate type, compared
\* case-insensitively; with no preference stored it returns the input; the
\* input list and the catalog are as they were.
C7_FilterIsSelection ==
    (probe.op = "filter") =>
        /\ probe.out = SelectSeq(probe.input, LAMBDA c : Satisfies(c, probe.prefs))
        /\ probe.prefs = EmptyDict => probe.out = probe.input
        /\ probe.input = catalog
        /\ catalog = Normalize(dataset.rows)

\* The filter kept some courses and dropped others, under a stored
\* preference.
C7_Witness ==
    /\ probe.op = "filter"
    /\ "difficulty" \in DOMAIN probe.prefs
    /\ probe.out # << >>
    /\ Len(probe.out) < Len(probe.input)
    /\ \E i \in DOMAIN probe.out : probe.out[i].difficulty # probe.prefs["difficulty"]

\* A field is no ground for exclusion: it is unset, or nothing is preferred
\* for it, or it contains the preferred value.
NotExcludedOn(field, preferred) ==
    \/ field = None
    \/ Contains(Lower(preferred), Lower(FieldText(field)))

\* C8: _apply_user_filters keeps a course whose difficulty or
\* certificate_type is unset, when its other field is no ground for
\* exclusion either.
C8_UnsetNotExcluded ==
    (probe.op = "filter") =>
        \A i \in DOMAIN probe.input :
            LET c == probe.input[i]
            IN  (/\ NotExcludedOn(c.difficulty, Preferred(probe.prefs, "difficulty"))
                 /\ NotExcludedOn(c.certificate_type,
                                  Preferred(probe.prefs, "certificate_type")))
                    => c \in Range(probe.out)

\* What holds of a task whatever went wrong in its handler.
ErrorContained(t) ==
    LET rec == tasks[t]
    IN  /\ ~rec.escaped
        /\ rec.exc # "none" => rec.pc \in {"error_handler", "done"}
        /\ (rec.exc # "none" /\ rec.pc = "done") =>
              /\ rec.apology # "none"
              /\ rec.has_message => rec.apology \in {"sent", "failed"}
              /\ ~rec.has_message => rec.apology = "skipped"
              /\ rec.apology = "sent" <=>
                    (rec.sent # << >> /\ rec.sent[Len(rec.sent)] = Msg("apology", << >>))
        /\ Busy(t) => phase = "running"

\* C9: an exception raised in a handler reaches error_handler and goes no
\* further; error_handler sends the apology when the update has a message,
\* swallows a failure of that reply, ends the task so that the slot takes
\* later updates, and leaves USERS, the catalog and the process running.
C9_ErrorsHandled ==
    [][\A t \in TaskIds :
          /\ ErrorContained(t)'
          /\ (tasks[t].pc = "error_handler" /\ tasks'[t] # tasks[t]) =>
                /\ tasks'[t].pc = "done"
                /\ USERS' = USERS
                /\ catalog' = catalog
                /\ phase' = "running"
                /\ handlers' = handlers]_vars

\* The apology reply itself failed, and the task ended all the same.
C9_Witness ==
    \E t \in TaskIds :
        /\ tasks[t].pc = "done"
        /\ tasks[t].exc = "io"
        /\ tasks[t].has_message
        /\ tasks[t].apology = "failed"
        /\ USERS # EmptyDict

\* C10: on_message for a text whose pool is empty never raises out of its
\* own code; when its reply succeeds it ends having sent the header and no
\* course message, without error_handler having run.
C10_NoMatchIsNotAnError ==
    \A t \in TaskIds :
        (tasks[t].kind = "on_message" /\ tasks[t].call # NoCall
            /\ tasks[t].pool = << >>) =>
            /\ tasks[t].exc \in {"none", "io"}
            /\ tasks[t].courses = << >>
            /\ tasks[t].pc \in {"done", "error_handler"}
            /\ tasks[t].exc = "none" =>
                  /\ tasks[t].pc = "done"
                  /\ tasks[t].sent = <<Msg("header", << >>)>>
                  /\ tasks[t].apology = "none"

C10_Witness ==
    \E t \in TaskIds :
        /\ tasks[t].kind = "on_message"
        /\ tasks[t].call.op = "recommend"
        /\ tasks[t].pool = << >>
        /\ tasks[t].pc = "done"
        /\ tasks[t].exc = "none"
        /\ tasks[t].sent = <<Msg("header", << >>)>>

\* C11: recommend and trending called with a top_k of zero or less return
\* the empty sequence instead of raising, and the calls the handlers make
\* carry the positive constants 25 (recommend) and 10 (trending).
C11_NonPositiveTopK ==
    /\ (probe.op \in {"recommend", "trending"} /\ probe.top_k <= 0)
          => probe.out = << >>
    /\ \A kind \in AllHandlers, text \in BotTexts :
          LET call == CallOf(kind, text)
          IN  /\ call.op = "recommend" => call.top_k = 25
              /\ call.op = "trending" => call.top_k = 10
              /\ call # NoCall => call.top_k > 0

\* recommend was called with a negative top_k for a query that two records
\* of the catalog are eligible for.
C11_Witness ==
    /\ probe.op = "recommend"
    /\ probe.top_k < 0
    /\ probe.out = << >>
    /\ Len(recommend(probe.input, probe.query, RecommendTopK)) >= 2

\* The preferences a handler reads for a chat: USERS.get(chat, {}).
PrefsOf(users, chat) == DictGet(users, chat, EmptyDict)

\* The text of callback data after its prefix.
After(data, prefix) == SubSeq(data, Len(prefix) + 1, Len(data))

\* after is before with key set to value and nothing else touched.
OnlyKeySet(before, after, key, value) ==
    /\ DOMAIN after = (DOMAIN before) \cup {key}
    /\ after[key] = value
    /\ \A k \in (DOMAIN before) \ {key} : after[k] = before[k]

\* Every chat but c has the entry it had, or none as before.
OthersUntouched(c) ==
    \A d \in Chats \ {c} :
        /\ d \in DOMAIN USERS' <=> d \in DOMAIN USERS
        /\ d \in DOMAIN USERS => USERS'[d] = USERS[d]

\* Task t takes the step of button that follows query.answer().
ButtonStep(t) == tasks[t].pc = "button" /\ tasks'[t] # tasks[t]

\* C12: a button callback level_X in chat c sets the difficulty of chat c
\* to X and a callback cert_Y sets its certificate_type to Y; the other
\* preference of chat c, the entries of all other chats and the catalog
\* stay as they were.
C12_ButtonFrame ==
    [][\A t \in TaskIds :
          ButtonStep(t) =>
              LET c == tasks[t].chat
                  data == tasks[t].data
                  before == PrefsOf(USERS, c)
                  after == PrefsOf(USERS', c)
              IN  /\ catalog' = catalog
                  /\ OthersUntouched(c)
                  /\ StartsWith(data, S_level_) =>
                        OnlyKeySet(before, after, "difficulty", After(data, S_level_))
                  /\ StartsWith(data, S_cert_) =>
                        OnlyKeySet(before, after, "certificate_type",
                                   After(data, S_cert_))]_vars

\* A level was chosen in a chat that had a certificate type stored, while
\* another chat had preferences of its own.
C12_Witness ==
    \E t \in TaskIds :
        LET c == tasks[t].chat
        IN  /\ tasks[t].kind = "button"
            /\ tasks[t].pc = "done"
            /\ tasks[t].exc = "none"
            /\ StartsWith(tasks[t].data, S_level_)
            /\ "certificate_type" \in DOMAIN PrefsOf(USERS, c)
            /\ PrefsOf(USERS, c)["difficulty"] = After(tasks[t].data, S_level_)
            /\ \E d \in Chats \ {c} : PrefsOf(USERS, d) # EmptyDict

\* The courses of the course messages a task has sent, in sending order.
CoursesSent(rec) ==
    LET msgs == SelectSeq(rec.sent, LAMBDA m : m.kind = "course")
    IN  [i \in DOMAIN msgs |-> msgs[i].body[1]]

RECURSIVE IsSubseq(_, _)
\* a is b with some elements left out.
IsSubseq(a, b) ==
    IF a = << >> THEN TRUE
    ELSE IF b = << >> THEN FALSE
    ELSE IF a[1] = b[1] THEN IsSubseq(Tail(a), Tail(b))
    ELSE IsSubseq(a, Tail(b))

IsPrefix(a, b) == Len(a) <= Len(b) /\ SubSeq(b, 1, Len(a)) = a

\* The handler ran to its end and none of its replies failed.
Finished(rec) == rec.pc = "done" /\ rec.exc = "none"

\* The courses of s that satisfy prefs, in the order of s.
Matching(s, prefs) == SelectSeq(s, LAMBDA c : Satisfies(c, prefs))

\* What a handler may have shown of a list of candidates under prefs: at
\* most five of them in their order, all satisfying prefs, or none of the
\* candidates satisfies prefs and it is the first five; all of it once the
\* handler finished.
ShownFrom(rec, candidates, prefs) ==
    LET shown == CoursesSent(rec)
        matching == Matching(candidates, prefs)
    IN  /\ Len(shown) <= 5
        /\ IsSubseq(shown, candidates)
        /\ \/ \A i \in DOMAIN shown : Satisfies(shown[i], prefs)
           \/ /\ matching = << >>
              /\ IsPrefix(shown, FirstK(candidates, 5))
        /\ Finished(rec) =>
              shown = FirstK(IF matching = << >> THEN candidates ELSE matching, 5)

\* C13: for a text that is not blank, on_message shows at most 5 courses
\* of the pool recommend(text, 25), in pool order: courses that all
\* satisfy the chat's stored preferences, or, when no course of the pool
\* satisfies them, the first 5 of the pool.  For a blank text it sends
\* nothing and calls the engine not at all.
C13_OnMessageShows ==
    \A t \in TaskIds :
        tasks[t].kind = "on_message" =>
            LET rec == tasks[t]
                text == Strip(rec.text)
            IN  IF text = << >>
                THEN /\ rec.sent = << >>
                     /\ rec.call = NoCall
                     /\ rec.exc = "none"
                ELSE ShownFrom(rec, recommend(catalog, text, 25),
                               PrefsOf(USERS, rec.chat))

\* on_message finished having shown 5 of more than 5 courses of the pool
\* that satisfy the stored preferences, one of the first 5 of the pool not
\* being among them.
C13_Witness ==
    \E t \in TaskIds :
        LET rec == tasks[t]
            pool == recommend(catalog, Strip(rec.text), 25)
            prefs == PrefsOf(USERS, rec.chat)
        IN  /\ rec.kind = "on_message"
            /\ Finished(rec)
            /\ Len(CoursesSent(rec)) = 5
            /\ Len(Matching(pool, prefs)) > 5
            /\ \E i \in 1..5 : ~Satisfies(pool[i], prefs)

\* C14: /top on a non-empty catalog shows between 1 and 5 courses, all
\* among the first 10 of trending order and in that order: courses that
\* all satisfy the chat's stored preferences when one of those 10 does,
\* the first 5 of trending order otherwise.  A course ranked below 10th is
\* not shown even if it satisfies the preferences.
C14_TopShows ==
    \A t \in TaskIds :
        (tasks[t].kind = "top" /\ catalog # << >>) =>
            LET rec == tasks[t]
                prefs == PrefsOf(USERS, rec.chat)
                ranked == trending(catalog, Len(catalog))
                shown == CoursesSent(rec)
            IN  /\ ShownFrom(rec, FirstK(ranked, 10), prefs)
                /\ Finished(rec) => Len(shown) \in 1..5
                /\ \A j \in 11..Len(ranked) : \A i \in DOMAIN shown : shown[i] # ranked[j]

\* /top finished for a chat whose preferences no course of the first 10
\* satisfies while a course ranked below 10th does: the first 5 of trending
\* order were shown.
C14_Witness ==
    \E t \in TaskIds :
        LET rec == tasks[t]
            prefs == PrefsOf(USERS, rec.chat)
            ranked == trending(catalog, Len(catalog))
        IN  /\ rec.kind = "top"
            /\ Finished(rec)
            /\ prefs # EmptyDict
            /\ \E j \in 11..Len(ranked) : Satisfies(ranked[j], prefs)
            /\ Matching(FirstK(ranked, 10), prefs) = << >>
            /\ CoursesSent(rec) = FirstK(ranked, 5)

\* The callback data that only navigate.
NavigationData == {S_confirm_save, S_back_to_cert, S_back_to_level, S_back_home}

\* Task t takes the step of top or on_message that reads the preferences.
ReadStep(t) == tasks[t].pc \in {"top", "on_message"} /\ tasks'[t].call # NoCall

\* The courses a handler picks from candidates under prefs.
PickedFrom(candidates, prefs) ==
    IF Matching(candidates, prefs) = << >> THEN FirstK(candidates, 5)
    ELSE Matching(candidates, prefs)

\* C15: the callbacks confirm_save, back_to_cert, back_to_level and
\* back_home leave every chat's stored preferences as they were, and what
\* on_message and /top pick for a chat is picked under the preferences
\* stored for it at that time, whatever was pressed before.
C15_NavigationKeepsPrefs ==
    [][\A t \in TaskIds :
          /\ (ButtonStep(t) /\ tasks[t].data \in NavigationData) =>
                \A c \in Chats : PrefsOf(USERS', c) = PrefsOf(USERS, c)
          /\ ReadStep(t) =>
                tasks'[t].courses =
                    PickedFrom(EngineCall(catalog, tasks'[t].call),
                               PrefsOf(USERS, tasks[t].chat))]_vars

\* Cancel was pressed in a chat with both preferences stored, and they are
\* stored still.
C15_Witness ==
    \E t \in TaskIds :
        /\ tasks[t].kind = "button"
        /\ tasks[t].data = S_back_home
        /\ tasks[t].pc = "done"
        /\ tasks[t].sent = <<Msg("cancelled", << >>)>>
        /\ DOMAIN PrefsOf(USERS, tasks[t].chat) = {"difficulty", "certificate_type"}

\* The values the level and certificate menus offer.
LevelValues == {After(b, S_level_) : b \in Range(LevelButtons)}

CertValues == {After(b, S_cert_) : b \in Range(CertButtons)}

\* The review screen or the "Preferences saved!" message.
IsReview(m) == m.kind \in {"step3", "saved"}

\* C16: in a process whose callbacks all come from menus it rendered, the
\* Step-3 review screen and the "Preferences saved!" message display a
\* difficulty among Beginner, Intermediate, Advanced and a certificate type
\* among COURSE, SPECIALIZATION, PROFESSIONAL, never N/A, both being stored
\* for the chat; and every stored value is among those.
C16_ReviewShowsBoth ==
    /\ \A t \in TaskIds : \A i \in DOMAIN tasks[t].sent :
          IsReview(tasks[t].sent[i]) =>
              LET m == tasks[t].sent[i].body[1]
                  prefs == PrefsOf(USERS, tasks[t].chat)
              IN  /\ m.difficulty \in LevelValues
                  /\ m.certificate_type \in CertValues
                  /\ DOMAIN prefs = {"difficulty", "certificate_type"}
    /\ \A c \in DOMAIN USERS :
          /\ "difficulty" \in DOMAIN USERS[c] => USERS[c]["difficulty"] \in LevelValues
          /\ "certificate_type" \in DOMAIN USERS[c]
                => USERS[c]["certificate_type"] \in CertValues

\* "Preferences saved!" was shown in a chat, with both values.
C16_Witness ==
    \E t \in TaskIds :
        /\ tasks[t].kind = "button"
        /\ tasks[t].data = S_confirm_save
        /\ tasks[t].pc = "done"
        /\ Len(tasks[t].sent) = 1
        /\ tasks[t].sent[1].kind = "saved"
        /\ tasks[t].sent[1].body[1].difficulty \in LevelValues
        /\ tasks[t].sent[1].body[1].certificate_type \in CertValues

\* The prefix of the callback data that store under a key.
PrefixOf(key) == IF key = "difficulty" THEN S_level_ ELSE S_cert_

\* C17: a chat that has an entry in USERS keeps it, and a preference that
\* is stored for a chat stays stored; its value changes only by a level_
\* (for the difficulty) or cert_ (for the certificate type) callback of
\* that chat.
C17_PrefsNeverRemoved ==
    [][\A c \in DOMAIN USERS :
          /\ c \in DOMAIN USERS'
          /\ \A key \in DOMAIN USERS[c] :
                /\ key \in DOMAIN USERS'[c]
                /\ USERS'[c][key] # USERS[c][key] =>
                      \E t \in TaskIds :
                          /\ ButtonStep(t)
                          /\ tasks[t].chat = c
                          /\ StartsWith(tasks[t].data, PrefixOf(key))]_vars

\* /setprefs ran again in a chat with both preferences stored, and they are
\* stored still.
C17_Witness ==
    \E t \in TaskIds :
        /\ tasks[t].kind = "setprefs"
        /\ tasks[t].pc = "done"
        /\ tasks[t].exc = "none"
        /\ DOMAIN PrefsOf(USERS, tasks[t].chat) = {"difficulty", "certificate_type"}

\* What the task has sent is the beginning of the first five of courses,
\* and all five once it finished.
SentFrom(rec, courses) ==
    /\ IsPrefix(CoursesSent(rec), FirstK(courses, 5))
    /\ Finished(rec) => CoursesSent(rec) = FirstK(courses, 5)

\* Task t takes a step of the loop that sends the course messages.
SendStep(t) ==
    tasks[t].pc \in {"top_loop", "on_message_loop"} /\ tasks'[t] # tasks[t]

\* C18: with handlers interleaved at their await points, on_message and
\* /top read the chat's preferences, call the engine and filter in one
\* step, and the courses they send are those determined by the preferences
\* read in that step, whatever a button callback stores while the messages
\* are being sent.
C18_SingleSnapshot ==
    [][\A t \in ConcIds :
          /\ ReadStep(t) =>
                /\ tasks'[t].prefs = PrefsOf(USERS, tasks[t].chat)
                /\ tasks'[t].courses =
                      PickedFrom(EngineCall(catalog, tasks'[t].call), tasks'[t].prefs)
                /\ SentFrom(tasks'[t], tasks'[t].courses)
          /\ SendStep(t) =>
                /\ tasks'[t].prefs = tasks[t].prefs
                /\ tasks'[t].courses = tasks[t].courses
                /\ SentFrom(tasks'[t], tasks[t].courses)]_vars

\* While /top or on_message was sending its course messages, a level_
\* callback stored a difficulty under which other courses would be picked.
C18_Witness ==
    \E t, b \in ConcIds :
        LET rec == tasks[t]
            now == PrefsOf(USERS, rec.chat)
        IN  /\ rec.pc \in {"top_loop", "on_message_loop"}
            /\ rec.i >= 1
            /\ CoursesSent(rec) # << >>
            /\ tasks[b].kind = "button"
            /\ tasks[b].pc = "done"
            /\ tasks[b].chat = rec.chat
            /\ StartsWith(tasks[b].data, S_level_)
            /\ now # rec.prefs
            /\ PickedFrom(EngineCall(catalog, rec.call), now) # rec.courses
====
